---- MODULE Spec2Model ----
(***************************************************************************)
(* NumberPlate_project: a model of the two scripts of the repository.      *)
(*                                                                         *)
(*   SpecCapture  the capture loop of Scripts/improved_script.py: camera   *)
(*                open check, one action per loop iteration (tick), the    *)
(*                plates/ directory across several runs of the script.     *)
(*   SpecExtract  clean_text / extract_plate_pattern of Scripts/ocr2.py    *)
(*                applied to bounded strings.                              *)
(*   SpecBatch    the batch run of Scripts/ocr2.py (and of the older copy  *)
(*                Scripts/tempCodeRunnerFile.py) against number_plates.xlsx*)
(***************************************************************************)
EXTENDS Integers, Sequences, FiniteSets, TLC

(***************************************************************************)
(* Bounds of the model.                                                    *)
(***************************************************************************)
\* runs of improved_script.py against the same plates/ directory
MaxSessions == 2
\* saves in one run
MaxSaves == 3
\* rectangles returned by the detector for one frame
MaxRects == 2
\* characters of the string handed to extract_plate_pattern
MaxLen == 8
\* data rows of number_plates.xlsx
MaxRows == 2

(***************************************************************************)
(* State of the capture script.                                            *)
(***************************************************************************)
VARIABLES
    pc,               \* "off" | "running" | "exited" | "aborted" | "crashed"
    cascadeLoaded,    \* plate_cascade holds a classifier (the xml was found)
    count,            \* count
    img_roi,          \* img_roi: <<>> is None, <<r>> the crop bounded by r
    plates,           \* plates: what detectMultiScale returned in this tick
    annotated,        \* rectangles drawn and labelled on img in this tick
    key,              \* key
    files,            \* plates/plate_<i>.jpg: NoFile, or <<r, n>> for the image
                      \* written by the n-th save of run r
    capReleased,      \* cap.release() was called in this run
    windowsDestroyed, \* cv2.destroyAllWindows() was called in this run
    exitStatus,       \* exit status of the run that ended
    diag,             \* last line printed
    \* history
    event,            \* what the last step did
    prevCount,        \* count before the last step
    prevFiles,        \* files before the last step
    prevRoi,          \* img_roi left by the tick before the last one
    saveLog,          \* the saves of this run, in order: [idx, content]
    sessions          \* runs started so far

capVars == <<pc, cascadeLoaded, count, img_roi, plates, annotated, key, files,
             capReleased, windowsDestroyed, exitStatus, diag, event, prevCount,
             prevFiles, prevRoi, saveLog, sessions>>

(***************************************************************************)
(* State of one call of extract_plate_pattern.                             *)
(***************************************************************************)
VARIABLES
    text,             \* the argument, a sequence of one-character strings
    plate,            \* the value returned, None when there is no match
    xpc               \* "input" | "done"

extVars == <<text, plate, xpc>>

(***************************************************************************)
(* State of the batch script.                                              *)
(***************************************************************************)
VARIABLES
    store,            \* the file number_plates.xlsx
    raised,           \* the last operation ended with an exception the caller sees
    bdiag,            \* last line printed by the last operation
    \* history
    op,               \* the last operation
    prevOp,           \* the operation before it
    prevStore,        \* store before the last operation
    run               \* what the last operation was given

batVars == <<store, raised, bdiag, op, prevOp, prevStore, run>>

vars == <<capVars, extVars, batVars>>

(***************************************************************************)
(* improved_script.py                                                      *)
(***************************************************************************)
min_area == 500

\* count before line 18 has run
NoCount == -1
\* exit status before a run has ended
NoStatus == -1

\* (x, y, w, h) as detectMultiScale returns them; areas 400, 500, 625
Rect(w, h) == [x |-> 0, y |-> 0, w |-> w, h |-> h]
Rectangles == {Rect(20, 20), Rect(20, 25), Rect(25, 25)}

RECURSIVE SeqsUpTo(_, _)
SeqsUpTo(S, n) ==
    IF n = 0 THEN {<<>>}
    ELSE LET T == SeqsUpTo(S, n - 1)
         IN  T \cup {Append(t, e) : t \in {u \in T : Len(u) = n - 1}, e \in S}

Detections == SeqsUpTo(Rectangles, MaxRects)

\* cv2.waitKey(1): -1 when no key was pressed, else the key code
ord_s == 115
ord_q == 113
ord_a == 97
WaitKeyResults == {-1, ord_s, ord_q, ord_a}

\* key = cv2.waitKey(1) & 0xFF
MaskKey(k) == k % 256

area(r) == r.w * r.h

\* line 33
PassesFilter(r) == area(r) > min_area

\* lines 31-38: the rectangles that get a box, a label and a crop, in loop order
RECURSIVE Candidates(_)
Candidates(ps) ==
    IF ps = <<>> THEN <<>>
    ELSE IF PassesFilter(Head(ps)) THEN <<Head(ps)>> \o Candidates(Tail(ps))
         ELSE Candidates(Tail(ps))

\* line 29 left out: the crop of the tick before stays
RoiAtTickStart_kept(roi) == roi

\* line 29: img_roi at the start of the rectangle loop
RoiAtTickStart(roi) == <<>>

\* lines 31-38: img_roi after the loop, every passing rectangle overwrites it
RECURSIVE LoopRoi(_, _)
LoopRoi(roi, ps) ==
    IF ps = <<>> THEN roi
    ELSE LoopRoi(IF PassesFilter(Head(ps)) THEN <<Head(ps)>> ELSE roi, Tail(ps))

\* a fixed file name in place of the numbered one
PlatePath_fixed(c) == 0

\* line 51: the n in plates/plate_<n>.jpg
PlatePath(c) == c

\* a counter that skips a number
NextCount_skip(c) == c + 2

\* line 53
NextCount(c) == c + 1

NoFile == <<>>
NoFiles == [i \in 0..(MaxSaves - 1) |-> NoFile]

CaptureOff ==
    /\ pc = "off"
    /\ cascadeLoaded = TRUE
    /\ count = NoCount
    /\ img_roi = <<>>
    /\ plates = <<>>
    /\ annotated = <<>>
    /\ key = 255
    /\ files = NoFiles
    /\ capReleased = FALSE
    /\ windowsDestroyed = FALSE
    /\ exitStatus = NoStatus
    /\ diag = ""
    /\ event = "none"
    /\ prevCount = NoCount
    /\ prevFiles = NoFiles
    /\ prevRoi = <<>>
    /\ saveLog = <<>>
    /\ sessions = 0

\* lines 5-19: one start of the script
Start(opened, cascadeFound) ==
    /\ pc # "running"
    /\ sessions < MaxSessions
    /\ sessions' = sessions + 1
    /\ cascadeLoaded' = cascadeFound
    /\ img_roi' = <<>>
    /\ plates' = <<>>
    /\ annotated' = <<>>
    /\ key' = 255
    /\ capReleased' = FALSE
    /\ windowsDestroyed' = FALSE
    /\ event' = "start"
    /\ prevCount' = count
    /\ prevFiles' = files
    /\ prevRoi' = <<>>
    /\ saveLog' = <<>>
    /\ UNCHANGED files
    /\ UNCHANGED <<extVars, batVars>>
    /\ IF ~opened
       THEN \* lines 12-14: print, exit()
            /\ diag' = "Error: Could not open camera."
            /\ pc' = "aborted"
            /\ exitStatus' = 0
            /\ count' = NoCount
       ELSE \* lines 16-19
            /\ diag' = ""
            /\ pc' = "running"
            /\ exitStatus' = NoStatus
            /\ count' = 0

\* lines 57-58
Release ==
    /\ capReleased' = TRUE
    /\ windowsDestroyed' = TRUE

\* lines 22-25: cap.read() fails, the loop breaks
TickReadFails ==
    /\ pc = "running"
    /\ event' = "readfail"
    /\ diag' = "Failed to capture frame."
    /\ pc' = "exited"
    /\ exitStatus' = 0
    /\ Release
    /\ prevCount' = count
    /\ prevFiles' = files
    /\ prevRoi' = img_roi
    /\ UNCHANGED <<cascadeLoaded, count, img_roi, plates, annotated, key, files,
                   saveLog, sessions>>
    /\ UNCHANGED <<extVars, batVars>>

\* lines 22-28 with an empty classifier: detectMultiScale raises cv2.error,
\* nothing catches it, lines 57-58 are not reached
TickRaises ==
    /\ pc = "running"
    /\ ~cascadeLoaded
    /\ event' = "crash"
    /\ diag' = "cv2.error"
    /\ pc' = "crashed"
    /\ exitStatus' = 1
    /\ prevCount' = count
    /\ prevFiles' = files
    /\ prevRoi' = img_roi
    /\ UNCHANGED <<cascadeLoaded, count, img_roi, plates, annotated, key, files,
                   capReleased, windowsDestroyed, saveLog, sessions>>
    /\ UNCHANGED <<extVars, batVars>>

\* lines 22-55: one full iteration
Tick(rects, k) ==
    /\ pc = "running"
    /\ UNCHANGED <<extVars, batVars>>
    /\ cascadeLoaded
    /\ LET roi == LoopRoi(RoiAtTickStart(img_roi), rects)
           ky  == MaskKey(k)
       IN  /\ ky = ord_s /\ roi # <<>> => count < MaxSaves
           /\ plates' = rects
           /\ annotated' = Candidates(rects)
           /\ img_roi' = roi
           /\ key' = ky
           /\ event' = "tick"
           /\ prevCount' = count
           /\ prevFiles' = files
           /\ prevRoi' = img_roi
           /\ UNCHANGED <<cascadeLoaded, sessions>>
           /\ IF ky = ord_s /\ roi # <<>>
              THEN \* lines 51-53
                   /\ files' = [files EXCEPT ![PlatePath(count)] =
                                                <<sessions, Len(saveLog) + 1>>]
                   /\ saveLog' = Append(saveLog, [idx |-> PlatePath(count),
                                                  content |-> <<sessions, Len(saveLog) + 1>>])
                   /\ diag' = "Plate saved"
                   /\ count' = NextCount(count)
                   /\ UNCHANGED <<pc, capReleased, windowsDestroyed, exitStatus>>
              ELSE IF ky = ord_q
              THEN \* line 55, then lines 57-58
                   /\ pc' = "exited"
                   /\ exitStatus' = 0
                   /\ Release
                   /\ UNCHANGED <<count, files, saveLog, diag>>
              ELSE UNCHANGED <<pc, count, files, saveLog, diag,
                               capReleased, windowsDestroyed, exitStatus>>

NextCapture ==
    \/ \E opened \in BOOLEAN, cascadeFound \in BOOLEAN : Start(opened, cascadeFound)
    \/ TickReadFails
    \/ TickRaises
    \/ \E rects \in Detections, k \in WaitKeyResults : Tick(rects, k)

(***************************************************************************)
(* ocr2.py: clean_text, extract_plate_pattern                              *)
(***************************************************************************)
None == <<"None">>

UPPERCASE == <<"A", "B", "C", "D", "E", "F", "G", "H", "I", "J", "K", "L", "M",
               "N", "O", "P", "Q", "R", "S", "T", "U", "V", "W", "X", "Y", "Z">>
LOWERCASE == <<"a", "b", "c", "d", "e", "f", "g", "h", "i", "j", "k", "l", "m",
               "n", "o", "p", "q", "r", "s", "t", "u", "v", "w", "x", "y", "z">>
DIGITS == {"0", "1", "2", "3", "4", "5", "6", "7", "8", "9"}

Range(f) == {f[i] : i \in DOMAIN f}

UpperSet == Range(UPPERCASE)
LowerSet == Range(LOWERCASE)
\* the upper-case letter of each lower-case letter
ToUpper == [c \in LowerSet |-> UPPERCASE[CHOOSE i \in DOMAIN LOWERCASE : LOWERCASE[i] = c]]

\* [A-Z]
IsAZ(c) == c \in UpperSet
\* \d on a string that holds only A-Z0-9
IsDigit(c) == c \in DIGITS

\* str.upper() of one ASCII character
upper(c) == IF c \in LowerSet THEN ToUpper[c] ELSE c

\* line 43: text.upper()
UpperText(t) == [i \in DOMAIN t |-> upper(t[i])]

\* line 44: re.sub(r'[^A-Z0-9]', '', text)
RECURSIVE StripNonAZ09(_)
StripNonAZ09(t) ==
    IF t = <<>> THEN <<>>
    ELSE IF IsAZ(Head(t)) \/ IsDigit(Head(t))
         THEN <<Head(t)>> \o StripNonAZ09(Tail(t))
         ELSE StripNonAZ09(Tail(t))

\* lines 41-45
clean_text(t) == StripNonAZ09(UpperText(t))

\* n characters of s from position i on, all of one class
AllAZ(s, i, n) == i + n - 1 <= Len(s) /\ \A j \in i..(i + n - 1) : IsAZ(s[j])
AllDigits(s, i, n) == i + n - 1 <= Len(s) /\ \A j \in i..(i + n - 1) : IsDigit(s[j])

\* line 54: [A-Z]{2}\d{1,2}[A-Z]{1,2}\d{3,4}; the repetition counts in the
\* order a greedy backtracking matcher tries them
Repetitions ==
    << <<2, 2, 4>>, <<2, 2, 3>>, <<2, 1, 4>>, <<2, 1, 3>>,
       <<1, 2, 4>>, <<1, 2, 3>>, <<1, 1, 4>>, <<1, 1, 3>> >>

\* the pattern matches s at position i with the repetition counts r
MatchesWith(s, i, r) ==
    /\ AllAZ(s, i, 2)
    /\ AllDigits(s, i + 2, r[1])
    /\ AllAZ(s, i + 2 + r[1], r[2])
    /\ AllDigits(s, i + 2 + r[1] + r[2], r[3])

\* length of the match found at position i trying the repetition counts from
\* the k-th on, 0 when there is none
RECURSIVE MatchFrom(_, _, _)
MatchFrom(s, i, k) ==
    IF k > Len(Repetitions) THEN 0
    ELSE IF MatchesWith(s, i, Repetitions[k])
         THEN 2 + Repetitions[k][1] + Repetitions[k][2] + Repetitions[k][3]
         ELSE MatchFrom(s, i, k + 1)

\* length of the match the matcher finds at position i, 0 when it finds none
MatchAt(s, i) == IF AllAZ(s, i, 2) THEN MatchFrom(s, i, 1) ELSE 0

\* re.match in place of re.search: only the start of the string is tried
LastStart_anchored(s) == 1

\* the last position re.search tries
LastStart(s) == Len(s)

\* re.search from position i on: the match at the first position that has one
RECURSIVE SearchFrom(_, _)
SearchFrom(s, i) ==
    IF i > LastStart(s) THEN None
    ELSE LET n == MatchAt(s, i)
         IN  IF n > 0 THEN SubSeq(s, i, i + n - 1) ELSE SearchFrom(s, i + 1)

\* line 55: re.search(pattern, cleaned)
re_search(s) == SearchFrom(s, 1)

\* lines 48-59
extract_plate_pattern(t) == re_search(clean_text(t))

\* the strings the documentation of extract_plate_pattern names
Ex_MH15GF5187 == <<"M", "H", "1", "5", "G", "F", "5", "1", "8", "7">>
Ex_MH15dotGF5187 == <<"M", "H", "1", "5", ".", "G", "F", "5", "1", "8", "7">>
Ex_MH15spGFsp5187 == <<"M", "H", "1", "5", " ", "G", "F", " ", "5", "1", "8", "7">>
Ex_ABCDEF == <<"A", "B", "C", "D", "E", "F">>
Examples == {Ex_MH15GF5187, Ex_MH15dotGF5187, Ex_MH15spGFsp5187, Ex_ABCDEF}

\* an upper-case letter, a lower-case letter, a digit, a punctuation mark
Alphabet == {"M", "h", "5", "."}

ExtractOff ==
    /\ text = <<>>
    /\ plate = None
    /\ xpc = "input"

\* the caller builds the argument one character at a time
AppendChar(c) ==
    /\ xpc = "input"
    /\ Len(text) < MaxLen
    /\ text' = Append(text, c)
    /\ UNCHANGED <<plate, xpc>>
    /\ UNCHANGED <<capVars, batVars>>

\* lines 48-59: one call
Extract ==
    /\ xpc = "input"
    /\ plate' = extract_plate_pattern(text)
    /\ xpc' = "done"
    /\ UNCHANGED text
    /\ UNCHANGED <<capVars, batVars>>

NextExtract ==
    \/ \E c \in Alphabet : AppendChar(c)
    \/ Extract

(***************************************************************************)
(* ocr2.py and tempCodeRunnerFile.py: the batch run                        *)
(***************************************************************************)
\* number_plates.xlsx: no file, a file that is not a readable workbook, a table
Absent == [kind |-> "absent", header |-> <<>>, rows |-> <<>>]
Corrupt == [kind |-> "corrupt", header |-> <<>>, rows |-> <<>>]

COLUMNS == <<"Date", "Time", "Plate Number">>
NaN == <<"NaN">>

\* pd.DataFrame(columns=[...])
EmptyFrame == [columns |-> COLUMNS, rows |-> <<>>]

\* df.to_excel(EXCEL_FILE, index=False): a header row, then the rows
to_excel(df) == [kind |-> "table", header |-> df.columns, rows |-> df.rows]

\* pd.read_excel(EXCEL_FILE): first row is the header; the cells of this model
\* are strings with a letter or a '-' or ':' in them, which come back as written
read_excel(st) == [columns |-> st.header, rows |-> st.rows]

\* pd.DataFrame([[date_str, time_str, plate_text]], columns=[...])
NewRow(now, plate_text) ==
    [columns |-> COLUMNS, rows |-> << <<now[1], now[2], plate_text>> >>]

\* a row of frame a laid out under the columns cols, NaN where a has no such column
Realign(a, row, cols) ==
    [i \in DOMAIN cols |->
        IF \E j \in DOMAIN a.columns : a.columns[j] = cols[i]
        THEN row[CHOOSE j \in DOMAIN a.columns : a.columns[j] = cols[i]]
        ELSE NaN]

\* pd.concat([a, b], ignore_index=True): union of the columns, rows of a then of b
concat(a, b) ==
    LET extra == SelectSeq(b.columns, LAMBDA c : \A j \in DOMAIN a.columns : a.columns[j] # c)
        cols  == a.columns \o extra
    IN  [columns |-> cols,
         rows |-> [i \in DOMAIN a.rows |-> Realign(a, a.rows[i], cols)]
                  \o [i \in DOMAIN b.rows |-> Realign(b, b.rows[i], cols)]]

\* the existence test left out: the workbook is created on every call
StoreExists_never(st) == FALSE

\* os.path.exists(EXCEL_FILE)
StoreExists(st) == st.kind # "absent"

\* the input/output call of one operation that fails, if any: workbook creation
\* in initialize_excel, read_excel, or to_excel in save_to_excel; a write that
\* fails leaves the file as it was (denied) or a broken file (partial).  The
\* first failing call ends the operation, so one operation meets at most one.
Faults == {"none", "create_denied", "create_partial", "read",
           "write_denied", "write_partial"}
SaveFaults == {"read", "write_denied", "write_partial"}

\* ocr2.py lines 17-22 (tempCodeRunnerFile.py lines 18-23): no try/except
initialize_excel(st, fault) ==
    IF ~StoreExists(st)
    THEN CASE fault = "create_denied"  -> [raised |-> TRUE, store |-> st]
           [] fault = "create_partial" -> [raised |-> TRUE, store |-> Corrupt]
           [] OTHER                    -> [raised |-> FALSE, store |-> to_excel(EmptyFrame)]
    ELSE [raised |-> FALSE, store |-> st]

SavedMsg == "Saved plate number"
SaveErrorMsg == "Error saving to Excel"

\* ocr2.py lines 128-141 (tempCodeRunnerFile.py lines 103-117): every exception
\* is caught and printed
save_to_excel(st, plate_text, now, fault) ==
    IF st.kind # "table" \/ fault = "read"
    THEN [store |-> st, diag |-> SaveErrorMsg]
    ELSE LET df == concat(read_excel(st), NewRow(now, plate_text))
         IN  CASE fault = "write_denied"  -> [store |-> st, diag |-> SaveErrorMsg]
               [] fault = "write_partial" -> [store |-> Corrupt, diag |-> SaveErrorMsg]
               [] OTHER                   -> [store |-> to_excel(df), diag |-> SavedMsg]

\* str.replace(c, "")
RECURSIVE RemoveAll(_, _)
RemoveAll(t, c) ==
    IF t = <<>> THEN <<>>
    ELSE IF Head(t) = c THEN RemoveAll(Tail(t), c)
         ELSE <<Head(t)>> \o RemoveAll(Tail(t), c)

IsSpace(c) == c \in {" ", "\n"}

\* str.strip()
RECURSIVE Strip(_)
Strip(t) ==
    IF t = <<>> THEN <<>>
    ELSE IF IsSpace(Head(t)) THEN Strip(Tail(t))
    ELSE IF IsSpace(t[Len(t)]) THEN Strip(SubSeq(t, 1, Len(t) - 1))
    ELSE t

\* pytesseract.image_to_string raised
OcrRaises == <<"raise">>

\* ocr2.py lines 62-125: None when cv2.imread gave None (img.shape raises), when
\* the OCR call raises, when the pattern is not found
extract_plate_text(image, ocr) ==
    IF image = "unreadable" \/ ocr = OcrRaises THEN None
    ELSE extract_plate_pattern(RemoveAll(RemoveAll(ocr, "\n"), " "))

\* tempCodeRunnerFile.py lines 42-100: the OCR text without blanks, no pattern
extract_plate_text_old(image, ocr) ==
    IF image = "unreadable" \/ ocr = OcrRaises THEN None
    ELSE RemoveAll(RemoveAll(Strip(ocr), " "), "\n")

\* the test of plate_text left out
Truthy_always(v) == TRUE

\* if plate_text:
Truthy(v) == v # None /\ v # <<>>

NoImageMsg == "No valid image found to process."
NoTextMsg == "No text was extracted from the latest image."

\* lines 144-156 of ocr2.py, lines 120-132 of tempCodeRunnerFile.py; extracted
\* is what extract_plate_text returned
MainBody(st, image, extracted, now, fault) ==
    LET i == initialize_excel(st, fault)
    IN  IF i.raised THEN [raised |-> TRUE, store |-> i.store, diag |-> "Traceback"]
        ELSE IF image = "none"
        THEN [raised |-> FALSE, store |-> i.store, diag |-> NoImageMsg]
        ELSE IF Truthy(extracted)
        THEN LET sv == save_to_excel(i.store, extracted, now, fault)
             IN  [raised |-> FALSE, store |-> sv.store, diag |-> sv.diag]
        ELSE [raised |-> FALSE, store |-> i.store, diag |-> NoTextMsg]

\* what get_latest_image finds: no file, a file cv2.imread cannot decode, an image
Images == {"none", "unreadable", "ok"}

\* what image_to_string returns for the image
Ocr_spaced == <<"M", "H", "1", "5", " ", "G", "F", "\n", "5", "1", "8", "7", "\n">>
Ocr_framed == <<"1", "D", "L", "8", "C", "A", "5", "0", "9", "8", "Z">>
Ocr_letters == Ex_ABCDEF \o <<"\n">>
Ocr_blank == <<" ", "\n">>
OcrResults == {Ocr_spaced, Ocr_framed, Ocr_letters, Ocr_blank, OcrRaises}

\* datetime.now() as (date_str, time_str)
Clock == {<<"2026-11-01", "10:00:00">>, <<"2026-11-02", "09:30:00">>}
\* datetime.now() was not called
NoClock == <<"", "">>

\* main gets as far as save_to_excel
SaveReached(image, plate_text) == image # "none" /\ Truthy(plate_text)

\* the faults a run can meet: creation only when there is no workbook, read and
\* rewrite only when save_to_excel is called on a workbook that can be opened
FaultsOf(st, saves) ==
    {f \in Faults :
        \/ f = "none"
        \/ f \in {"create_denied", "create_partial"} /\ ~StoreExists(st)
        \/ f \in SaveFaults /\ saves /\ st.kind # "corrupt"}

\* the clock readings a run can take: line 131 is inside save_to_excel
ClockOf(saves) == IF saves THEN Clock ELSE {NoClock}

RowCount(st) == Len(st.rows)

NoRun == [image |-> "none", ocr |-> OcrRaises, now |-> NoClock,
          fault |-> "none", arg |-> None]

BatchOff ==
    /\ store = Absent
    /\ raised = FALSE
    /\ bdiag = ""
    /\ op = "none"
    /\ prevOp = "none"
    /\ prevStore = Absent
    /\ run = NoRun

RunBatch(name, result, info) ==
    \E res \in {result} :
    /\ store' = res.store
    /\ raised' = res.raised
    /\ bdiag' = res.diag
    /\ op' = name
    /\ prevOp' = op
    /\ prevStore' = store
    /\ run' = info
    /\ UNCHANGED <<capVars, extVars>>

\* one run of ocr2.py
Main(image, ocr) ==
    /\ RowCount(store) < MaxRows
    /\ image # "ok" => ocr = OcrRaises
    /\ \E plate_text \in {extract_plate_text(image, ocr)} :
       \E now \in ClockOf(SaveReached(image, plate_text)),
          fault \in FaultsOf(store, SaveReached(image, plate_text)) :
         RunBatch("main",
                  MainBody(store, image, plate_text, now, fault),
                  [image |-> image, ocr |-> ocr, now |-> now,
                   fault |-> fault, arg |-> None])

\* one run of tempCodeRunnerFile.py
MainOld(image, ocr) ==
    /\ RowCount(store) < MaxRows
    /\ image # "ok" => ocr = OcrRaises
    /\ \E plate_text \in {extract_plate_text_old(image, ocr)} :
       \E now \in ClockOf(SaveReached(image, plate_text)),
          fault \in FaultsOf(store, SaveReached(image, plate_text)) :
         RunBatch("main_old",
                  MainBody(store, image, plate_text, now, fault),
                  [image |-> image, ocr |-> ocr, now |-> now,
                   fault |-> fault, arg |-> None])

\* one call of initialize_excel
InitializeExcel(fault) ==
    LET i == initialize_excel(store, fault)
    IN  RunBatch("initialize_excel",
                 [raised |-> i.raised, store |-> i.store, diag |-> ""],
                 [NoRun EXCEPT !.fault = fault])

\* one call of save_to_excel with a plate string
SaveToExcel(plate_text, now, fault) ==
    /\ RowCount(store) < MaxRows
    /\ LET sv == save_to_excel(store, plate_text, now, fault)
       IN  RunBatch("save_to_excel",
                    [raised |-> FALSE, store |-> sv.store, diag |-> sv.diag],
                    [NoRun EXCEPT !.now = now, !.fault = fault,
                                  !.arg = plate_text])

PlateStrings == {extract_plate_pattern(t) : t \in OcrResults} \ {None}

NextBatch ==
    \/ \E image \in Images, ocr \in OcrResults : Main(image, ocr)
    \/ \E image \in Images, ocr \in OcrResults : MainOld(image, ocr)
    \/ \E fault \in FaultsOf(store, FALSE) : InitializeExcel(fault)
    \/ \E plate_text \in PlateStrings, now \in Clock,
          fault \in FaultsOf(store, TRUE) \cap ({"none"} \cup SaveFaults) :
            SaveToExcel(plate_text, now, fault)

(***************************************************************************)
(* Specifications                                                          *)
(***************************************************************************)
InitCapture == CaptureOff /\ ExtractOff /\ BatchOff

SpecCapture == InitCapture /\ [][NextCapture]_vars

InitExtract ==
    /\ CaptureOff
    /\ BatchOff
    /\ text \in {<<>>} \cup Examples
    /\ plate = None
    /\ xpc = "input"

SpecExtract == InitExtract /\ [][NextExtract]_vars

InitBatch ==
    /\ CaptureOff
    /\ ExtractOff
    /\ store \in {Absent, Corrupt}
    /\ raised = FALSE
    /\ bdiag = ""
    /\ op = "none"
    /\ prevOp = "none"
    /\ prevStore = store
    /\ run = NoRun

SpecBatch == InitBatch /\ [][NextBatch]_vars

(***************************************************************************)
(* Properties of the capture script (SpecCapture)                          *)
(***************************************************************************)
\* the last step was a tick that took the save branch
Saved == event = "tick" /\ key = ord_s /\ img_roi # <<>>

\* C1: in one run the counter starts at 0, the n-th save writes
\* plates/plate_<n-1>.jpg and adds exactly 1 to the counter, and no other event
\* (a tick without a save, quit, a save with no candidate, a failed read)
\* changes the counter or the directory.
C1_SequenceNumbering ==
    /\ (event = "start" /\ pc = "running") => count = 0
    /\ count # NoCount =>
        /\ count = Len(saveLog)
        /\ \A n \in 1..Len(saveLog) : saveLog[n].idx = n - 1
    /\ event \in {"tick", "readfail", "crash"} =>
        IF Saved
        THEN /\ count = prevCount + 1
             /\ files[prevCount] = <<sessions, count>>
             /\ files[prevCount] # prevFiles[prevCount]
             /\ \A i \in DOMAIN files : i # prevCount => files[i] = prevFiles[i]
        ELSE count = prevCount /\ files = prevFiles

\* three saves in the first run: plate_0.jpg, plate_1.jpg, plate_2.jpg exist
C1_Witness ==
    /\ Saved
    /\ sessions = 1
    /\ Len(saveLog) = 3
    /\ \A i \in 0..2 : files[i] = <<1, i + 1>>

\* C2: a save command in a tick in which no rectangle passes the area filter
\* writes nothing, leaves the counter alone and leaves the loop running, also
\* when the tick before had a candidate.
C2_NoBufferedCandidate ==
    (event = "tick" /\ key = ord_s /\ Candidates(plates) = <<>>) =>
        /\ count = prevCount
        /\ files = prevFiles
        /\ pc = "running"

\* a save command with rectangles that are all too small, right after a tick
\* that had a candidate
C2_Witness ==
    /\ event = "tick"
    /\ key = ord_s
    /\ plates # <<>>
    /\ Candidates(plates) = <<>>
    /\ prevRoi # <<>>

\* C3: the rectangles annotated and cropped in a tick are exactly the detected
\* rectangles with area >= min_area, in detection order.
C3_FilterAtLeastMinArea ==
    event = "tick" =>
        annotated = SelectSeq(plates, LAMBDA r : r.w * r.h >= min_area)

\* C7: whenever the loop has ended (quit, failed read, error inside a tick) the
\* camera was released and the windows were destroyed.
C7_ReleaseOnEveryExit ==
    pc \in {"exited", "crashed"} => capReleased /\ windowsDestroyed

\* C8: no save overwrites or alters a file written by an earlier save, over any
\* number of runs of the script.
C8_AppendOnly ==
    [][\A i \in DOMAIN files : files[i] # NoFile => files'[i] = files[i]]_vars

\* C8 as amended: no save overwrites or alters a file written by an earlier
\* save of the same run.
C8_NoOverwriteWithinSession ==
    \A n \in 1..Len(saveLog) : files[saveLog[n].idx] = saveLog[n].content

\* a second run against a directory that still holds plate_2.jpg of the first
\* run, after its second save
C8_Witness ==
    /\ sessions = 2
    /\ Saved
    /\ Len(saveLog) = 2
    /\ files[2] # NoFile

\* C10: when the camera cannot be opened no frame is read, nothing is saved and
\* the process ends with a diagnostic and a non-zero exit status.
C10_AbortNonZero ==
    pc = "aborted" =>
        /\ diag = "Error: Could not open camera."
        /\ files = prevFiles
        /\ saveLog = <<>>
        /\ exitStatus # 0

(***************************************************************************)
(* Properties of extract_plate_pattern (SpecExtract)                       *)
(***************************************************************************)
\* the characters that survive cleaning, upper-cased
CleanedOf(t) ==
    LET kept == SelectSeq(t, LAMBDA c : c \in UpperSet \cup LowerSet \cup DIGITS)
    IN  [i \in DOMAIN kept |-> IF kept[i] \in LowerSet THEN ToUpper[kept[i]] ELSE kept[i]]

\* 2 letters, 1-2 digits, 1-2 letters, 3-4 digits
InGrammar(u) ==
    \E d \in 1..2, l \in 1..2, n \in 3..4 :
        /\ Len(u) = 2 + d + l + n
        /\ \A j \in 1..Len(u) :
            IF j <= 2 \/ (j > 2 + d /\ j <= 2 + d + l)
            THEN u[j] \in UpperSet
            ELSE u[j] \in DIGITS

\* the substrings of c that are in the grammar, as (first, last)
GrammarHits(c) ==
    {ij \in {<<i, i + n - 1>> : i \in 1..Len(c), n \in 7..10} :
        ij[2] <= Len(c) /\ InGrammar(SubSeq(c, ij[1], ij[2]))}

\* v is a grammar substring of c that starts where the leftmost one starts
IsLeftmostHit(c, v) ==
    \E hits \in {GrammarHits(c)} :
        \E ij \in hits :
            /\ v = SubSeq(c, ij[1], ij[2])
            /\ \A kl \in hits : ij[1] <= kl[1]

IsRun == op \in {"main", "main_old"}

\* the last operation added one data row
Appended ==
    /\ store.kind = "table"
    /\ RowCount(store) = RowCount(prevStore) + 1

\* the OCR output of the last run, when there was an image and OCR returned
HasOcr == run.image = "ok" /\ run.ocr # OcrRaises

\* the OCR output has a grammar substring
OcrMatches == HasOcr /\ GrammarHits(CleanedOf(run.ocr)) # {}

\* a call on the workbook failed in the last operation, had it been reached
StoreFails == prevStore.kind = "corrupt" \/ run.fault # "none"

\* the workbook after initialize_excel alone
Initialized(st) == IF st.kind = "absent" THEN to_excel(EmptyFrame) ELSE st

LastRow == store.rows[Len(store.rows)]

\* C5: a batch run appends a record if and only if a latest image exists and
\* its OCR output has a grammar substring; the plate of the record is that
\* substring; with no image or no match the data rows stay as they were.
C5_AppendIffGrammarMatch ==
    IsRun =>
        /\ Appended <=> OcrMatches
        /\ Appended => IsLeftmostHit(CleanedOf(run.ocr), LastRow[3])
        /\ ~OcrMatches => store.rows = prevStore.rows

\* C5 as amended: a run of ocr2.py appends a record if and only if a latest
\* image exists, its OCR output has a grammar substring and no call on the
\* workbook fails; the record is (date, time, that substring); with no image or
\* no match the workbook is left as initialize_excel leaves it.  A run of
\* tempCodeRunnerFile.py appends if and only if OCR returned text that is not
\* blank and no call on the workbook fails.
C5_AppendIffMatchAndStoreWorks ==
    /\ op = "main" =>
        /\ Appended <=> (OcrMatches /\ ~StoreFails)
        /\ Appended =>
            /\ IsLeftmostHit(CleanedOf(run.ocr), LastRow[3])
            /\ LastRow[1] = run.now[1] /\ LastRow[2] = run.now[2]
        /\ (~OcrMatches /\ ~raised) => store = Initialized(prevStore)
    /\ op = "main_old" =>
        Appended <=> /\ HasOcr
                     /\ \E i \in DOMAIN run.ocr : run.ocr[i] \notin {" ", "\n"}
                     /\ ~StoreFails

\* a run of ocr2.py on OCR output with the plate inside other characters, added
\* to a workbook that already has a row
C5_Witness ==
    /\ op = "main"
    /\ Appended
    /\ run.ocr = Ocr_framed
    /\ RowCount(prevStore) = 1
    /\ LastRow[3] = <<"D", "L", "8", "C", "A", "5", "0", "9", "8">>

\* C6: initialize_excel creates a header-only table when there is no workbook
\* and leaves an existing workbook untouched; a successful save_to_excel adds
\* exactly one row of 3 fields at the end and keeps the rows before it.
C6_InitIdempotentAppendOne ==
    /\ (op = "initialize_excel" /\ ~raised) =>
        IF prevStore.kind = "absent"
        THEN store = [kind |-> "table", header |-> COLUMNS, rows |-> <<>>]
        ELSE store = prevStore
    /\ (op = "save_to_excel" /\ bdiag = SavedMsg) =>
        /\ Appended
        /\ store.header = prevStore.header
        /\ SubSeq(store.rows, 1, RowCount(prevStore)) = prevStore.rows
        /\ Len(LastRow) = 3
        /\ LastRow = <<run.now[1], run.now[2], run.arg>>

\* initialize_excel called twice in a row from no workbook: a header-only table
C6_Witness ==
    /\ op = "initialize_excel"
    /\ prevOp = "initialize_excel"
    /\ ~raised
    /\ prevStore = store
    /\ store = [kind |-> "table", header |-> COLUMNS, rows |-> <<>>]

\* C9: no exception leaves a batch run: a failure of OCR or of a call on the
\* workbook, creation in initialize_excel included, ends in a diagnostic.
C9_NoExceptionEscapesMain ==
    IsRun => ~raised

====
